---- MODULE Spec2Model ----
(***************************************************************************)
(* Model of the backend sidecar supervisor of service-lense                *)
(* (app/src-tauri/src/main.rs): BackendProcess {start, stop, Drop}, the    *)
(* setup hook, the CloseRequested window hook and the restart_backend      *)
(* command, together with the pure helper extract_port.                    *)
(*                                                                         *)
(* Conventions.  A Rust String is a sequence of one-character strings.     *)
(* Option<T> is a sequence of length 0 (None) or 1 (Some(x)).  A Child     *)
(* handle is the index of the OS process in procs.                         *)
(*                                                                         *)
(* OS assumptions.  SIGKILL sent by Child::kill to a live child ends it;   *)
(* Child::wait and Child::try_wait on an owned child do not fail; a child  *)
(* may exit on its own at any time while the host runs.  Spec and FairSpec  *)
(* have no panic; PanicSpec adds a panic of a command that holds the       *)
(* mutex, which is the only way the mutex gets poisoned.  When the tauri    *)
(* event loop ends the process, managed state is not dropped: the only     *)
(* cleanup on the close path is the CloseRequested hook.                   *)
(***************************************************************************)
EXTENDS Integers, Sequences, FiniteSets, TLC

\* Number of restart_backend invocations the front end issues (one per id).
NumRestart == 2
\* Longest address string fed to extract_port in PortSpec.
MaxAddrLen == 5

\* u16::MAX, the range of the port type.
U16_MAX == 65535

None == << >>
Some(x) == << x >>

---------------------------------------------------------------------------
(* extract_port                                                            *)

Digits == << "0", "1", "2", "3", "4", "5", "6", "7", "8", "9" >>

IsDigit(ch) == \E i \in 1..Len(Digits) : Digits[i] = ch

DigitVal(ch) == (CHOOSE i \in 1..Len(Digits) : Digits[i] = ch) - 1

\* addr.split(':').last(): the text after the last ':' (all of it if none).
RECURSIVE LastSegment(_)
LastSegment(addr) ==
    IF \A i \in 1..Len(addr) : addr[i] # ":"
    THEN addr
    ELSE LastSegment(Tail(addr))

\* Mutated parse: the accumulator wraps modulo 2^16 instead of failing.
RECURSIVE ParseDigitsWrap(_, _)
ParseDigitsWrap(s, acc) ==
    IF s = << >> THEN Some(acc)
    ELSE IF ~IsDigit(Head(s)) THEN None
    ELSE ParseDigitsWrap(Tail(s), (acc * 10 + DigitVal(Head(s))) % (U16_MAX + 1))

\* The digit loop of u16::from_str: checked_mul(10) then checked_add(digit);
\* an invalid digit or an overflow is an Err (None here).
RECURSIVE ParseDigits(_, _)
ParseDigits(s, acc) ==
    IF s = << >> THEN Some(acc)
    ELSE IF ~IsDigit(Head(s)) THEN None
    ELSE IF acc * 10 > U16_MAX THEN None
    ELSE IF acc * 10 + DigitVal(Head(s)) > U16_MAX THEN None
    ELSE ParseDigits(Tail(s), acc * 10 + DigitVal(Head(s)))

\* p.parse::<u16>().ok(): empty and a lone sign are errors, one leading '+'
\* is accepted, '-' is an invalid digit for an unsigned type.
ParseU16(s) ==
    IF s = << >> THEN None
    ELSE IF Len(s) = 1 /\ Head(s) \in {"+", "-"} THEN None
    ELSE IF Head(s) = "+" THEN ParseDigits(Tail(s), 0)
    ELSE ParseDigits(s, 0)

ExtractPort(addr) == ParseU16(LastSegment(addr))

---------------------------------------------------------------------------
(* BackendConfig and its resolution                                        *)

DEFAULT_BACKEND_ADDR ==
    << "l", "o", "c", "a", "l", "h", "o", "s", "t", ":", "8", "0", "8", "1" >>
DEFAULT_HTTP_ADDR == << ":", "9", "0", "0", "0" >>
DEFAULT_ALLOW_ORIGINS ==
    << "h", "t", "t", "p", ":", "/", "/", "l", "o", "c", "a", "l", "h", "o", "s",
       "t", ":", "5", "1", "7", "3" >>

\* The closure of unwrap_or_else: the built-in defaults.
DefaultConfig ==
    [ backend_addr  |-> DEFAULT_BACKEND_ADDR,
      http_addr     |-> DEFAULT_HTTP_ADDR,
      use_tls       |-> FALSE,
      allow_origins |-> DEFAULT_ALLOW_ORIGINS ]

\* Configs the front end passes to restart_backend.  serde requires the four
\* fields to be present but accepts empty strings.
CfgX ==
    [ backend_addr  |-> << "x" >>,
      http_addr     |-> << ":", "1", "2", "3", "4" >>,
      use_tls       |-> TRUE,
      allow_origins |-> << "y" >> ]

CfgEmpty ==
    [ backend_addr  |-> << >>,
      http_addr     |-> << >>,
      use_tls       |-> FALSE,
      allow_origins |-> << >> ]

CfgInvalid ==
    [ backend_addr  |-> DEFAULT_BACKEND_ADDR,
      http_addr     |-> << "i", "n", "v", "a", "l", "i", "d" >>,
      use_tls       |-> FALSE,
      allow_origins |-> DEFAULT_ALLOW_ORIGINS ]

Configs == { CfgX, CfgEmpty, CfgInvalid }

\* Mutated resolution: use_tls is taken from the defaults, the other three
\* fields from the caller.
ResolveConfigMixed(config) ==
    IF config = None THEN DefaultConfig
    ELSE [ config[1] EXCEPT !.use_tls = DefaultConfig.use_tls ]

\* config.unwrap_or_else(|| BackendConfig { defaults })
ResolveConfig(config) ==
    IF config = None THEN DefaultConfig ELSE config[1]

\* Mutated environment: GRPS_HTTP_ADDR is left at the default bind address.
ChildEnvStaleAddr(config) ==
    [ GRPS_BACKEND_ADDR           |-> config.backend_addr,
      GRPS_HTTP_ADDR              |-> DEFAULT_HTTP_ADDR,
      GRPS_BACKEND_USE_TLS        |-> IF config.use_tls THEN "true" ELSE "false",
      GRPS_ALLOW_ORIGINS          |-> config.allow_origins,
      GRPS_AUTO_ALLOW_DEV_ORIGINS |-> "true" ]

\* The five cmd.env(...) calls (identical in the dev and production branch).
ChildEnv(config) ==
    [ GRPS_BACKEND_ADDR           |-> config.backend_addr,
      GRPS_HTTP_ADDR              |-> config.http_addr,
      GRPS_BACKEND_USE_TLS        |-> IF config.use_tls THEN "true" ELSE "false",
      GRPS_ALLOW_ORIGINS          |-> config.allow_origins,
      GRPS_AUTO_ALLOW_DEV_ORIGINS |-> "true" ]

---------------------------------------------------------------------------
(* Results                                                                 *)

Pending == << >>
Ok == << "Ok" >>
Err(e) == << "Err", e >>

ErrNoDir == "Backend directory does not exist"
ErrUnsupported == "Unsupported target OS"
ErrNoBinary ==
    "Backend binary not found. Checked executable_dir and resource_dir locations."
ErrSpawn == "io error from Command::spawn"
ErrExitDev == "Backend process failed to start"
ErrExitProd == "Backend process failed to start. Check console logs for details."
ErrNoState == "Backend state not found"
ErrLock == "Failed to lock backend: poisoned lock: another task failed inside"

\* .map_err(|e| format!("Failed to restart backend: {}", e))
WrapRestart(r) ==
    IF r = Ok THEN Ok ELSE << "Err", "Failed to restart backend: ", r[2] >>

---------------------------------------------------------------------------
(* State                                                                   *)

VARIABLES
    build,       \* "dev" (debug_assertions), "prod", or "prod_unsupported"
                 \* (a release build for an OS/arch start rejects)
    host,        \* "setup", "running", "failed" (setup returned Err), "exited"
    backend,     \* the BackendProcess: [child: Option<Child>, config: Option<BackendConfig>]
    registered,  \* app.manage(Mutex::new(backend)) has happened
    lock,        \* holder of the Mutex<BackendProcess>: None or Some(id)
    procs,       \* OS processes spawned so far, by handle
    pc,          \* position of the setup hook (id 0) and of each restart_backend call
    arg,         \* the config argument of the start each caller runs
    result,      \* value returned by start, then by restart_backend
    reclaim,     \* what kill_process_on_port met during each caller's start
    hook,        \* position of the CloseRequested handler
    addr,        \* PortSpec: the input of extract_port
    port,        \* PortSpec: its output
    pstep        \* PortSpec: "off", "input" or "done"

vars == << build, host, backend, registered, lock, procs, pc, arg, result,
           reclaim, hook, addr, port, pstep >>

portVars == << addr, port, pstep >>

SetupId == 0
RestartIds == 1..NumRestart
HookId == NumRestart + 1
Callers == {SetupId} \cup RestartIds

Children == 1..Len(procs)

Running(c) == procs[c].st = "running"

---------------------------------------------------------------------------
(* The Mutex<BackendProcess>                                               *)

\* The mutex is free (None), held (Some(id)), or free with its poison flag
\* set by a holder that panicked.
Poisoned == Some(NumRestart + 2)

\* Mutated lock(): it never waits for the holder.
TryLockNoExclusion(l) ==
    IF l = Poisoned THEN "poisoned" ELSE "guard"

\* Mutex::lock(): blocks while the mutex is held, returns the guard when it
\* is free and Err(PoisonError) when it is poisoned.
TryLock(l) ==
    IF l = None THEN "guard"
    ELSE IF l = Poisoned THEN "poisoned"
    ELSE "blocked"

\* Mutated handling: the guard inside the PoisonError is used and the
\* command goes on.
RestartOnLockRecover(r) ==
    [ guard |-> TRUE, pc |-> "stop", result |-> Pending ]

\* Line 352: lock().map_err(|e| format!("Failed to lock backend: {}", e))?
RestartOnLock(r) ==
    IF r = "guard"
    THEN [ guard |-> TRUE, pc |-> "stop", result |-> Pending ]
    ELSE [ guard |-> FALSE, pc |-> "done", result |-> Err(ErrLock) ]

---------------------------------------------------------------------------
(* BackendProcess::stop and Drop                                           *)

\* Mutated stop: the handle is dropped without kill and wait (dropping a
\* std::process::Child leaves the process running).
StopForget(b, ps) ==
    [ b |-> [ b EXCEPT !.child = None ], ps |-> ps ]

\* Mutated stop: kill() without wait(); the killed child stays a zombie.
StopNoWait(b, ps) ==
    IF b.child = None
    THEN [ b |-> b, ps |-> ps ]
    ELSE [ b  |-> [ b EXCEPT !.child = None ],
           ps |-> [ ps EXCEPT ![b.child[1]].st =
                                 IF @ = "reaped" THEN "reaped" ELSE "zombie",
                              ![b.child[1]].kill_called = TRUE ] ]

\* Mutated stop: the whole record is reset, the stored config included,
\* whether or not a handle was held.
StopClearsConfig(b, ps) ==
    IF b.child = None
    THEN [ b |-> [ child |-> None, config |-> None ], ps |-> ps ]
    ELSE [ b  |-> [ child |-> None, config |-> None ],
           ps |-> [ ps EXCEPT ![b.child[1]].st = "reaped",
                              ![b.child[1]].kill_called = TRUE ] ]

\* Mutated stop: when kill() can fail (the handle is of a child already
\* reaped) the handle is kept, as if the error were propagated with '?'.
StopKeepFailed(b, ps) ==
    IF b.child = None
    THEN [ b |-> b, ps |-> ps ]
    ELSE IF ps[b.child[1]].st = "reaped"
    THEN [ b |-> b, ps |-> [ ps EXCEPT ![b.child[1]].kill_called = TRUE ] ]
    ELSE [ b  |-> [ b EXCEPT !.child = None ],
           ps |-> [ ps EXCEPT ![b.child[1]].st = "reaped",
                              ![b.child[1]].kill_called = TRUE ] ]

\* stop(): take() the handle; if there was one, kill() and wait().
Stop(b, ps) ==
    IF b.child = None
    THEN [ b |-> b, ps |-> ps ]
    ELSE [ b  |-> [ b EXCEPT !.child = None ],
           ps |-> [ ps EXCEPT ![b.child[1]].st = "reaped",
                              ![b.child[1]].kill_called = TRUE ] ]

\* What child.kill() can return in stop(): on a running or exited child of
\* the caller the signal is delivered; on a handle try_wait has already
\* reaped no signal is sent, and std answers Ok(()) or, in older toolchains,
\* an InvalidInput error.
KillResults(b, ps) ==
    IF b.child = None THEN { "not_called" }
    ELSE IF ps[b.child[1]].st = "reaped" THEN { "ok", "err" }
    ELSE { "ok" }

\* Lines 281-283: a kill error is written to stderr and nothing else.
LogKill(ps, b, k) ==
    IF k = "err" THEN [ ps EXCEPT ![b.child[1]].kill_err = TRUE ] ELSE ps

\* stop() with each result kill() can have.
StopOutcomes(b, ps) ==
    { [ b  |-> Stop(b, ps).b,
        ps |-> LogKill(Stop(b, ps).ps, b, k) ] : k \in KillResults(b, ps) }

\* impl Drop for BackendProcess
Drop(b, ps) == StopOutcomes(b, ps)

---------------------------------------------------------------------------
(* Initial state: BackendProcess::new() inside the setup hook, about to    *)
(* call start(app.handle(), None).                                         *)

PortIdle == addr = << >> /\ port = None /\ pstep = "off"

MainInit ==
    /\ build \in { "dev", "prod", "prod_unsupported" }
    /\ host = "setup"
    /\ backend = [ child |-> None, config |-> None ]
    /\ registered = FALSE
    /\ lock = None
    /\ procs = << >>
    /\ pc = [ t \in Callers |-> IF t = SetupId THEN "start" ELSE "idle" ]
    /\ arg = [ t \in Callers |-> None ]
    /\ result = [ t \in Callers |-> Pending ]
    /\ reclaim = [ t \in Callers |-> "not_run" ]
    /\ hook = "idle"

Init == MainInit /\ PortIdle

\* The caller is executing: the setup hook during setup, a command while the
\* event loop runs and, for a command, while it holds the mutex.
Active(t) ==
    IF t = SetupId THEN host = "setup"
    ELSE host = "running" /\ lock = Some(t)

---------------------------------------------------------------------------
(* BackendProcess::start, step by step at its blocking points              *)

\* Mutated start: the executable is resolved right after stop, port or not.
AfterStopSkipsReclaim(p) == "resolve"

\* Lines 86-93: with a port, kill_process_on_port and the sleep come next;
\* without one, the executable is resolved.
AfterStop(p) == IF p # None THEN "reclaim" ELSE "resolve"

\* Lines 75-86: self.stop(); self.config = config.clone(); resolve; extract_port.
StartBegin(t) ==
    /\ Active(t)
    /\ pc[t] = "start"
    /\ \E s \in StopOutcomes(backend, procs) :
         /\ backend' = [ s.b EXCEPT !.config = arg[t] ]
         /\ procs' = s.ps
    /\ pc' = [ pc EXCEPT ![t] =
                 AfterStop(ExtractPort(ResolveConfig(arg[t]).http_addr)) ]
    /\ UNCHANGED << build, host, registered, lock, arg, result, reclaim, hook,
                    portVars >>

\* What kill_process_on_port can meet; it returns () in every case.
ReclaimOutcomes == { "lsof_failed", "none_found", "killed", "kill_failed" }

\* Mutated continuation: a failed reclamation aborts start.
AfterReclaimFatal(outcome) ==
    IF outcome \in { "lsof_failed", "kill_failed" }
    THEN [ pc |-> "ret", result |-> Err("port reclamation failed") ]
    ELSE [ pc |-> "resolve", result |-> Pending ]

\* Lines 88-91: the outcome is discarded and start goes on after the sleep.
AfterReclaim(outcome) == [ pc |-> "resolve", result |-> Pending ]

\* Lines 87-90: kill_process_on_port(port), then sleep 300 ms.
Reclaim(t) ==
    /\ Active(t)
    /\ pc[t] = "reclaim"
    /\ \E o \in ReclaimOutcomes :
         /\ reclaim' = [ reclaim EXCEPT ![t] = o ]
         /\ pc' = [ pc EXCEPT ![t] = AfterReclaim(o).pc ]
         /\ result' = [ result EXCEPT ![t] = AfterReclaim(o).result ]
    /\ UNCHANGED << build, host, backend, registered, lock, procs, arg, hook,
                    portVars >>

\* Lines 93-102 (dev) and 145-232 (production): find what to launch.
Resolve(t) ==
    /\ Active(t)
    /\ pc[t] = "resolve"
    /\ \/ /\ build # "prod_unsupported"
          /\ pc' = [ pc EXCEPT ![t] = "spawn" ]
          /\ UNCHANGED result
       \/ /\ pc' = [ pc EXCEPT ![t] = "ret" ]
          /\ result' = [ result EXCEPT ![t] =
                           IF build = "dev" THEN Err(ErrNoDir)
                           ELSE IF build = "prod" THEN Err(ErrNoBinary)
                           ELSE Err(ErrUnsupported) ]
    /\ UNCHANGED << build, host, backend, registered, lock, procs, arg, reclaim,
                    hook, portVars >>

\* Lines 104-133 (dev) and 234-261 (production): cmd.env x5, cmd.spawn()?,
\* self.child = Some(child).
Spawn(t) ==
    /\ Active(t)
    /\ pc[t] = "spawn"
    /\ \/ /\ procs' = Append(procs,
                        [ env         |-> ChildEnv(ResolveConfig(arg[t])),
                          st          |-> "running",
                          by          |-> t,
                          kill_called |-> FALSE,
                          kill_err    |-> FALSE ])
          /\ backend' = [ backend EXCEPT !.child = Some(Len(procs) + 1) ]
          /\ pc' = [ pc EXCEPT ![t] = "poll" ]
          /\ UNCHANGED result
       \/ /\ pc' = [ pc EXCEPT ![t] = "ret" ]
          /\ result' = [ result EXCEPT ![t] = Err(ErrSpawn) ]
          /\ UNCHANGED << backend, procs >>
    /\ UNCHANGED << build, host, registered, lock, arg, reclaim, hook, portVars >>

\* Mutated poll: the exit status is never looked at.
TryWaitBlind(p) == None

\* child.try_wait(): Some(status) once the child has exited, None while it runs.
TryWait(p) == IF p.st = "running" THEN None ELSE Some("status")

\* Lines 137-143 (dev) and 265-275 (production): sleep 500 ms, try_wait.
\* try_wait reaps an exited child; the handle stays in self.child.
Poll(t) ==
    /\ Active(t)
    /\ pc[t] = "poll"
    /\ LET c == backend.child[1] IN
         IF TryWait(procs[c]) # None
         THEN /\ procs' = [ procs EXCEPT ![c].st = "reaped" ]
              /\ result' = [ result EXCEPT ![t] =
                               IF build = "dev" THEN Err(ErrExitDev)
                               ELSE Err(ErrExitProd) ]
         ELSE /\ result' = [ result EXCEPT ![t] = Ok ]
              /\ UNCHANGED procs
    /\ pc' = [ pc EXCEPT ![t] = "ret" ]
    /\ UNCHANGED << build, host, backend, registered, lock, arg, reclaim, hook,
                    portVars >>

---------------------------------------------------------------------------
(* The setup hook                                                          *)

\* Mutated policy: a failed initial start is only a warning in every build.
SetupOutcomeLenient(b, r) ==
    IF r = Ok
    THEN [ manage |-> TRUE, host |-> "running" ]
    ELSE [ manage |-> FALSE, host |-> "running" ]

\* Mutated policy: the supervisor is handed to app.manage on both arms.
SetupOutcomeManageAlways(b, r) ==
    IF r = Ok \/ b = "dev"
    THEN [ manage |-> TRUE, host |-> "running" ]
    ELSE [ manage |-> FALSE, host |-> "failed" ]

\* Lines 303-322: what the setup closure does with start's result r in
\* build b: app.manage and Ok(()), or (cfg(not(debug_assertions))) Err.
SetupOutcome(b, r) ==
    IF r = Ok
    THEN [ manage |-> TRUE, host |-> "running" ]
    ELSE IF b = "dev"
    THEN [ manage |-> FALSE, host |-> "running" ]
    ELSE [ manage |-> FALSE, host |-> "failed" ]

\* Lines 303-322: Ok => app.manage(Mutex::new(backend)); Err => the local
\* backend is dropped when the closure returns, which returns Err only in a
\* release build.
SetupFinish ==
    /\ host = "setup"
    /\ pc[SetupId] = "ret"
    /\ registered' = SetupOutcome(build, result[SetupId]).manage
    /\ host' = SetupOutcome(build, result[SetupId]).host
    /\ IF result[SetupId] = Ok
       THEN UNCHANGED << backend, procs >>
       ELSE \E d \in Drop(backend, procs) :
                 /\ backend' = d.b
                 /\ procs' = d.ps
    /\ pc' = [ pc EXCEPT ![SetupId] = "done" ]
    /\ reclaim' = [ reclaim EXCEPT ![SetupId] = "not_run" ]
    /\ UNCHANGED << build, lock, arg, result, hook, portVars >>

---------------------------------------------------------------------------
(* The restart_backend command                                             *)

\* Lines 340-351 and 357-359: the command is invoked with a config;
\* try_state finds the managed supervisor or the command returns at once.
RestartEnter(t, c) ==
    /\ host = "running"
    /\ pc[t] = "idle"
    /\ IF registered
       THEN /\ pc' = [ pc EXCEPT ![t] = "lock" ]
            /\ arg' = [ arg EXCEPT ![t] = Some(c) ]
            /\ UNCHANGED result
       ELSE /\ pc' = [ pc EXCEPT ![t] = "done" ]
            /\ result' = [ result EXCEPT ![t] = Err(ErrNoState) ]
            /\ UNCHANGED arg
    /\ UNCHANGED << build, host, backend, registered, lock, procs, reclaim, hook,
                    portVars >>

\* Line 352: state.lock() blocks until the mutex is free; a poisoned mutex
\* ends the command with an error string.
RestartLock(t) ==
    /\ host = "running"
    /\ pc[t] = "lock"
    /\ TryLock(lock) # "blocked"
    /\ LET o == RestartOnLock(TryLock(lock)) IN
         /\ lock' = IF o.guard THEN Some(t) ELSE lock
         /\ pc' = [ pc EXCEPT ![t] = o.pc ]
         /\ result' = [ result EXCEPT ![t] = o.result ]
         /\ arg' = IF o.guard THEN arg ELSE [ arg EXCEPT ![t] = None ]
    /\ UNCHANGED << build, host, backend, registered, procs, reclaim, hook,
                    portVars >>

\* Line 353: backend.stop()
RestartStop(t) ==
    /\ Active(t)
    /\ pc[t] = "stop"
    /\ \E s \in StopOutcomes(backend, procs) :
         /\ backend' = s.b
         /\ procs' = s.ps
    /\ pc' = [ pc EXCEPT ![t] = "start" ]
    /\ UNCHANGED << build, host, registered, lock, arg, result, reclaim, hook,
                    portVars >>

\* Mutated return: the '?' on start's error leaves the mutex locked.
GuardDropKeepsOnErr(l, r) == IF r = Ok THEN None ELSE l

\* Lines 352-359: the MutexGuard is a local of restart_backend; it is dropped
\* when the function returns, by Ok(()) or by '?', and that unlocks the mutex.
GuardDrop(l, r) == None

\* Lines 354-356: map_err on start's result, return, the guard is dropped.
\* The call's argument and locals end with it.
RestartReturn(t) ==
    /\ Active(t)
    /\ pc[t] = "ret"
    /\ result' = [ result EXCEPT ![t] = WrapRestart(result[t]) ]
    /\ lock' = GuardDrop(lock, result[t])
    /\ pc' = [ pc EXCEPT ![t] = "done" ]
    /\ arg' = [ arg EXCEPT ![t] = None ]
    /\ reclaim' = [ reclaim EXCEPT ![t] = "not_run" ]
    /\ UNCHANGED << build, host, backend, registered, procs, hook, portVars >>

---------------------------------------------------------------------------
(* The CloseRequested window hook                                          *)

\* Lines 326-328: the event arrives; try_state finds the supervisor or not.
HookFire ==
    /\ host = "running"
    /\ hook = "idle"
    /\ hook' = IF registered THEN "lock" ELSE "done"
    /\ UNCHANGED << build, host, backend, registered, lock, procs, pc, arg,
                    result, reclaim, portVars >>

\* Line 329: if let Ok(mut backend) = app.lock(); a poisoned mutex makes the
\* handler skip the stop.
HookLock ==
    /\ host = "running"
    /\ hook = "lock"
    /\ TryLock(lock) # "blocked"
    /\ IF TryLock(lock) = "guard"
       THEN lock' = Some(HookId) /\ hook' = "stop"
       ELSE lock' = lock /\ hook' = "done"
    /\ UNCHANGED << build, host, backend, registered, procs, pc, arg, result,
                    reclaim, portVars >>

\* Lines 330-331: backend.stop(); the guard is dropped.
HookStop ==
    /\ host = "running"
    /\ hook = "stop"
    /\ lock = Some(HookId)
    /\ \E s \in StopOutcomes(backend, procs) :
         /\ backend' = s.b
         /\ procs' = s.ps
    /\ lock' = None
    /\ hook' = "done"
    /\ UNCHANGED << build, host, registered, pc, arg, result, reclaim, portVars >>

---------------------------------------------------------------------------
(* Environment                                                             *)

\* A spawned child exits on its own (crash, bind failure, ...).
ChildExit(c) ==
    /\ host \in { "setup", "running" }
    /\ procs[c].st = "running"
    /\ procs' = [ procs EXCEPT ![c].st = "zombie" ]
    /\ UNCHANGED << build, host, backend, registered, lock, pc, arg, result,
                    reclaim, hook, portVars >>

\* Lines 335-336: the host process ends, either because setup returned Err
\* (run() fails and expect panics) or after the window has closed.  Commands
\* still running end with it; nothing else is cleaned up.
HostExit ==
    /\ \/ host = "failed"
       \/ host = "running" /\ hook = "done"
    /\ host' = "exited"
    /\ UNCHANGED << build, backend, registered, lock, procs, pc, arg, result,
                    reclaim, hook, portVars >>

---------------------------------------------------------------------------
(* Specifications                                                          *)

CallerStep(t) ==
    \/ StartBegin(t)
    \/ Reclaim(t)
    \/ Resolve(t)
    \/ Spawn(t)
    \/ Poll(t)

RestartStep(t) ==
    \/ RestartLock(t)
    \/ RestartStop(t)
    \/ RestartReturn(t)

HookStep == HookLock \/ HookStop

Next ==
    \/ \E t \in Callers : CallerStep(t)
    \/ SetupFinish
    \/ \E t \in RestartIds : \E c \in Configs : RestartEnter(t, c)
    \/ \E t \in RestartIds : RestartStep(t)
    \/ HookFire
    \/ HookStep
    \/ \E c \in Children : ChildExit(c)
    \/ HostExit

Spec == Init /\ [][Next]_vars

\* A caller that is running keeps running and the blocking calls return; the
\* front end, the user closing the window, a child's own exit and the end of
\* the host are not forced.
Progress ==
    \/ \E t \in Callers : CallerStep(t)
    \/ SetupFinish
    \/ \E t \in RestartIds : RestartStep(t)
    \/ HookStep

FairSpec == Spec /\ WF_vars(Progress)

---------------------------------------------------------------------------
(* Fault: a panic inside the critical section                              *)

\* print! and eprint! panic when the write to stdout or stderr fails.  start
\* writes there while restart_backend holds the guard (lines 87, 119-123,
\* 134, 172-232, 247-251, 262).  Either the panic ends the process, or only
\* the calling thread unwinds: the guard is dropped during the unwinding,
\* which sets the poison flag, the command gives no result, and the
\* supervisor is left as it was at the panic.
Panic(t) ==
    /\ Active(t)
    /\ pc[t] \in { "reclaim", "resolve", "spawn", "poll" }
    /\ \/ /\ lock' = Poisoned
          /\ pc' = [ pc EXCEPT ![t] = "panicked" ]
          /\ arg' = [ arg EXCEPT ![t] = None ]
          /\ reclaim' = [ reclaim EXCEPT ![t] = "not_run" ]
          /\ UNCHANGED host
       \/ /\ host' = "exited"
          /\ UNCHANGED << lock, pc, arg, reclaim >>
    /\ UNCHANGED << build, backend, registered, procs, result, hook, portVars >>

PanicNext ==
    \/ Next
    \/ \E t \in RestartIds : Panic(t)

PanicSpec == Init /\ [][PanicNext]_vars

---------------------------------------------------------------------------
(* extract_port on its own: every short string over an alphabet that has   *)
(* digits, both signs, the separator and a letter, and the documented      *)
(* examples.                                                               *)

Alphabet == { "0", "3", "5", "6", ":", "+", "-", "a" }

AddrLocalhost8081 == DEFAULT_BACKEND_ADDR
AddrColon9000 == DEFAULT_HTTP_ADDR
AddrInvalid == << "i", "n", "v", "a", "l", "i", "d" >>
Addr65535 == << ":", "6", "5", "5", "3", "5" >>
Addr65536 == << ":", "6", "5", "5", "3", "6" >>
Addr99999 == << "a", ":", "9", "9", "9", "9", "9" >>

PortInputs ==
    UNION { [ 1..n -> Alphabet ] : n \in 0..MaxAddrLen }
      \cup { AddrLocalhost8081, AddrColon9000, AddrInvalid, Addr65535,
             Addr65536, Addr99999 }

PortInit ==
    /\ MainInit
    /\ build = "dev"
    /\ addr \in PortInputs
    /\ port = None
    /\ pstep = "input"

\* let port = extract_port(&addr)
ExtractStep ==
    /\ pstep = "input"
    /\ port' = ExtractPort(addr)
    /\ pstep' = "done"
    /\ UNCHANGED << build, host, backend, registered, lock, procs, pc, arg,
                    result, reclaim, hook, addr >>

PortNext == ExtractStep

PortSpec == PortInit /\ [][PortNext]_vars

---------------------------------------------------------------------------
(* Claims                                                                  *)

Reaped(c) == procs[c].st = "reaped"

\* C1 (at-most-one child): in every state at most one spawned process is
\* running, and every process but the most recently spawned one has been
\* killed or has exited and has been reaped, so each earlier child is gone
\* before a later spawn happens.
C1_AtMostOneChild ==
    /\ Cardinality({ c \in Children : Running(c) }) <= 1
    /\ \A c \in Children : c < Len(procs) => Reaped(c)

\* Two restarts after the initial start: the third child runs alone.
C1_Witness ==
    /\ Len(procs) = 3
    /\ Running(3)
    /\ procs[1].kill_called /\ procs[2].kill_called
    /\ procs[2].by # procs[3].by

\* C2 (shutdown guarantee): once the close hook has fired on a registered
\* supervisor, also while a restart holds the lock, the hook eventually
\* returns, and when it returns the supervisor holds no handle and every
\* process it spawned has been reaped.
C2_ShutdownGuarantee ==
    (hook = "lock") ~>
        (hook = "done" /\ backend.child = None /\ \A c \in Children : Reaped(c))

\* The hook has killed the child that the restart call 1 left running.
C2_Witness ==
    /\ hook = "done"
    /\ Len(procs) = 2
    /\ procs[2].by = 1
    /\ procs[2].kill_called
    /\ pc[1] = "done"
    /\ \A t \in RestartIds : t # 1 => pc[t] = "idle"

\* C3 (no orphan survives the host): when the host process has exited, no
\* process spawned by the supervisor is running.
C3_NoOrphan ==
    host = "exited" => \A c \in Children : ~Running(c)

\* C4 (restart replaces config): when restart_backend(c) is about to return
\* Ok, the supervisor's handle is the child this call spawned, its
\* environment is the four values of c with TLS as "true"/"false" plus
\* GRPS_AUTO_ALLOW_DEV_ORIGINS="true", and every other process, the one of
\* start(None) included, is gone.
C4_RestartReplacesConfig ==
    \A t \in RestartIds :
        (pc[t] = "ret" /\ result[t] = Ok) =>
            /\ backend.child # None
            /\ procs[backend.child[1]].by = t
            /\ procs[backend.child[1]].env =
                 [ GRPS_BACKEND_ADDR           |-> arg[t][1].backend_addr,
                   GRPS_HTTP_ADDR              |-> arg[t][1].http_addr,
                   GRPS_BACKEND_USE_TLS        |->
                       IF arg[t][1].use_tls = TRUE THEN "true" ELSE "false",
                   GRPS_ALLOW_ORIGINS          |-> arg[t][1].allow_origins,
                   GRPS_AUTO_ALLOW_DEV_ORIGINS |-> "true" ]
            /\ \A c \in Children : c # backend.child[1] => Reaped(c)
            /\ procs[1].by = SetupId /\ Reaped(1)

\* start(None) then restart_backend(CfgX), both successful.
C4_Witness ==
    \E t \in RestartIds :
        /\ pc[t] = "ret" /\ result[t] = Ok
        /\ arg[t] = Some(CfgX)
        /\ Len(procs) = 2
        /\ procs[1].kill_called
        /\ Running(2)
        /\ procs[2].env.GRPS_HTTP_ADDR = << ":", "1", "2", "3", "4" >>
        /\ procs[2].env.GRPS_BACKEND_USE_TLS = "true"

\* C5 (immediate-exit detection): at the poll after the post-spawn delay, a
\* child that has already exited makes start return the 'failed to start'
\* error, which is not the spawn error, and start returns Ok only from a poll
\* that found the child running.
C5_ImmediateExit ==
    [][ \A t \in Callers :
          /\ (pc[t] = "poll" /\ pc'[t] = "ret") =>
               /\ ~Running(backend.child[1]) =>
                    /\ result'[t] \in { Err(ErrExitDev), Err(ErrExitProd) }
                    /\ result'[t] # Err(ErrSpawn)
               /\ result'[t] = Ok => Running(backend.child[1])
          /\ (result[t] # Ok /\ result'[t] = Ok) =>
               (pc[t] = "poll" /\ Running(backend.child[1]))
      ]_vars

\* A start that failed because its child had exited before the poll.
C5_Witness ==
    \E t \in Callers :
        /\ pc[t] = "ret"
        /\ result[t] \in { Err(ErrExitDev), Err(ErrExitProd) }
        /\ backend.child # None
        /\ Reaped(backend.child[1])
        /\ ~procs[backend.child[1]].kill_called

\* C6 (idempotent stop): a stop() executed while the supervisor holds no
\* handle leaves the handle, the stored config and every process untouched
\* and sets no error; the stop() at the head of start, which follows the
\* stop() of restart_backend, kills and reaps nothing.
C6_IdempotentStop ==
    [][ /\ ( /\ \/ \E t \in RestartIds : pc[t] = "stop" /\ pc'[t] = "start"
                \/ hook = "stop" /\ hook' = "done"
             /\ backend.child = None )
          => (backend' = backend /\ procs' = procs /\ result' = result)
        /\ \A t \in RestartIds :
             (pc[t] = "start" /\ pc'[t] # "start") =>
                (procs' = procs /\ backend'.child = None /\ backend.child = None)
      ]_vars

\* The hook ran stop() after a restart whose spawn failed: no handle was held.
C6_Witness ==
    /\ hook = "done"
    /\ Len(procs) = 1
    /\ pc[1] = "done"
    /\ result[1] = WrapRestart(Err(ErrSpawn))
    /\ \A t \in RestartIds : t # 1 => pc[t] = "idle"
    /\ backend.config # None

NonEmptyConfig(c) ==
    /\ DOMAIN c = { "backend_addr", "http_addr", "use_tls", "allow_origins" }
    /\ c.backend_addr # << >>
    /\ c.http_addr # << >>
    /\ c.use_tls \in BOOLEAN
    /\ c.allow_origins # << >>

\* C7 (config completeness): whenever a start is past configuration
\* resolution, the resolved config has all four fields present and non-empty,
\* and so has the environment of every child launched.
C7_ConfigComplete ==
    /\ \A t \in Callers :
         pc[t] \in { "reclaim", "resolve", "spawn", "poll", "ret" } =>
            NonEmptyConfig(ResolveConfig(arg[t]))
    /\ \A c \in Children :
         /\ procs[c].env.GRPS_BACKEND_ADDR # << >>
         /\ procs[c].env.GRPS_HTTP_ADDR # << >>
         /\ procs[c].env.GRPS_ALLOW_ORIGINS # << >>

\* The decimal value of a string of digits, most significant first.
DecimalValue(d) ==
    LET pow[k \in 0..Len(d)] == IF k = 0 THEN 1 ELSE 10 * pow[k - 1]
        sum[i \in 0..Len(d)] ==
            IF i = 0 THEN 0
            ELSE sum[i - 1] + pow[Len(d) - i] *
                   ((CHOOSE v \in 0..9 : Digits[v + 1] = d[i]))
    IN sum[Len(d)]

\* What the claim expects of extract_port(a): the text after the last ':'
\* (all of a if there is none), read as a decimal number with an optional
\* leading '+', if that is a number in 0..65535, and none otherwise.
ExpectedPort(a) ==
    LET colons == { i \in 1..Len(a) : a[i] = ":" }
        last   == IF colons = { } THEN 0
                  ELSE CHOOSE i \in colons : \A j \in colons : j <= i
        seg    == [ i \in 1..(Len(a) - last) |-> a[last + i] ]
        digs   == IF Len(seg) > 0 /\ seg[1] = "+"
                  THEN [ i \in 1..(Len(seg) - 1) |-> seg[i + 1] ]
                  ELSE seg
    IN IF /\ Len(digs) > 0
          /\ \A i \in 1..Len(digs) :
               digs[i] \in { "0", "1", "2", "3", "4", "5", "6", "7", "8", "9" }
          /\ DecimalValue(digs) <= 65535
       THEN << DecimalValue(digs) >>
       ELSE << >>

\* C8 (port extraction): extract_port yields the last colon-delimited segment
\* as a number when it parses as a u16 and none otherwise, never a wrapped
\* value; ":9000" gives 9000, "localhost:8081" gives 8081, "invalid" none.
C8_PortExtraction ==
    pstep = "done" =>
        /\ port = ExpectedPort(addr)
        /\ port # None => port[1] \in 0..65535
        /\ addr = AddrColon9000 => port = << 9000 >>
        /\ addr = AddrLocalhost8081 => port = << 8081 >>
        /\ addr = AddrInvalid => port = None
        /\ addr = Addr65535 => port = << 65535 >>
        /\ addr \in { Addr65536, Addr99999 } => port = None

\* A segment one above u16::MAX has been rejected.
C8_Witness ==
    /\ pstep = "done"
    /\ addr = << "6", "5", "5", "3", "6" >>
    /\ port = None

StartErrors ==
    { Err(ErrNoDir), Err(ErrNoBinary), Err(ErrUnsupported), Err(ErrSpawn),
      Err(ErrExitDev), Err(ErrExitProd) }

\* C10 (port reclamation is never fatal): a start whose http_addr yields no
\* port goes from its head straight to resolving the executable without
\* running reclamation; a start that runs reclamation goes on to resolve the
\* executable whatever reclamation met, with no result set; and the only
\* results a start ever has come from resolving, spawning and polling.
C10_ReclaimNotFatal ==
    [][ \A t \in Callers :
          /\ (pc[t] = "start" /\ pc'[t] # "start") =>
               IF ExpectedPort(ResolveConfig(arg[t]).http_addr) = << >>
               THEN pc'[t] = "resolve" /\ reclaim'[t] = "not_run"
                    /\ result'[t] = Pending
               ELSE pc'[t] = "reclaim" /\ result'[t] = Pending
          /\ (pc[t] = "reclaim" /\ pc'[t] # "reclaim") =>
               /\ pc'[t] = "resolve"
               /\ result'[t] = Pending
          /\ (pc'[t] = "ret" /\ pc[t] # "ret") =>
               /\ pc[t] \in { "resolve", "spawn", "poll" }
               /\ result'[t] \in StartErrors \cup { Ok }
      ]_vars

\* One restart returned Ok although the kill issued by its reclamation had
\* failed; the next, whose http_addr is "invalid", has spawned its child
\* without running reclamation.
C10_Witness ==
    \E t, u \in RestartIds :
        /\ pc[t] = "done"
        /\ result[t] = Ok
        /\ procs[2].by = t
        /\ procs[2].env.GRPS_HTTP_ADDR = CfgX.http_addr
        /\ pc[u] = "poll"
        /\ arg[u] = Some(CfgInvalid)
        /\ reclaim[u] = "not_run"
        /\ Len(procs) = 3
        /\ Running(3)

InLock(t) == pc[t] \in { "stop", "start", "reclaim", "resolve", "spawn", "poll", "ret" }

\* C11 (lifecycle operations serialize): from taking the mutex to returning,
\* a restart_backend call is the holder of the mutex, and so is the close
\* hook while it stops the child; hence at most one of them is between lock
\* and unlock.  A spawn by a restart call happens while that call holds the
\* mutex, with no other call and not the hook in that section, and with
\* every earlier process already killed and reaped.
C11_Serialized ==
    /\ \A t \in RestartIds : InLock(t) => lock = Some(t)
    /\ hook = "stop" => lock = Some(HookId)
    /\ Cardinality({ t \in RestartIds : InLock(t) })
         + (IF hook = "stop" THEN 1 ELSE 0) <= 1
    /\ \A t \in RestartIds :
         pc[t] \in { "spawn", "poll" } =>
            /\ \A u \in RestartIds \ { t } : ~InLock(u)
            /\ hook # "stop"
            /\ \A c \in Children : c < Len(procs) => Reaped(c)

\* One restart is about to spawn while the other restart and the close hook
\* wait for the mutex.
C11_Witness ==
    \E t, u \in RestartIds :
        /\ t # u
        /\ pc[t] = "spawn"
        /\ pc[u] = "lock"
        /\ hook = "lock"
        /\ procs[1].kill_called

\* C12 (stop never fails and ends Idle): after every stop() - the one of
\* restart_backend, the one at the head of start, the one of the close hook
\* and the one of Drop - the supervisor holds no handle and the child it held
\* is reaped, whether kill() returned Ok or an error; no result is set by it
\* and its caller goes on with its next statement.
C12_StopEndsIdle ==
    [][ /\ \A t \in RestartIds :
             (pc[t] = "stop" /\ pc'[t] # "stop") =>
                /\ backend'.child = None
                /\ pc'[t] = "start"
                /\ result' = result
        /\ \A t \in Callers :
             (pc[t] = "start" /\ pc'[t] # "start") =>
                /\ backend'.child = None
                /\ pc'[t] \in { "reclaim", "resolve" }
                /\ result' = result
        /\ (hook = "stop" /\ hook' # "stop") =>
             /\ backend'.child = None
             /\ hook' = "done"
             /\ result' = result
        /\ (host = "setup" /\ host' # "setup" /\ result[SetupId] # Ok) =>
             /\ backend'.child = None
             /\ result' = result
        /\ (backend.child # None /\ backend'.child # backend.child) =>
             /\ procs'[backend.child[1]].st = "reaped"
             /\ procs'[backend.child[1]].kill_called
      ]_vars

\* A kill() has failed (on the handle a failed liveness poll left behind) and
\* the start that ran that stop has gone on to spawn the next child.
C12_Witness ==
    \E t \in RestartIds :
        /\ pc[t] = "poll"
        /\ \E c \in Children : procs[c].kill_err /\ Reaped(c)
        /\ backend.child = Some(Len(procs))

\* C13 (initial-start failure policy): when the setup hook's start(None)
\* fails, a development build keeps the host running (the hook returns Ok)
\* and every other build fails application startup, after which no command
\* and no window hook runs; when it succeeds the supervisor is registered as
\* application state and the host runs, in every build.
C13_InitialStartPolicy ==
    /\ [][ (host = "setup" /\ host' # "setup") =>
             /\ pc[SetupId] = "ret"
             /\ result[SetupId] = Ok => (registered' /\ host' = "running")
             /\ (result[SetupId] # Ok /\ build = "dev") =>
                  (host' = "running" /\ ~registered')
             /\ (result[SetupId] # Ok /\ build # "dev") =>
                  (host' = "failed" /\ ~registered')
         ]_vars
    /\ [][ host = "failed" => host' \in { "failed", "exited" } ]_vars
    /\ [](host = "failed" =>
            /\ hook = "idle"
            /\ \A t \in RestartIds : pc[t] = "idle")

\* A development build whose initial start failed serves a command.
C13_Witness ==
    /\ build = "dev"
    /\ host = "running"
    /\ pc[SetupId] = "done"
    /\ result[SetupId] = Err(ErrExitDev)
    /\ ~registered
    /\ \E t \in RestartIds : pc[t] = "done"

\* C14 (a failed start returns the supervisor to Idle): whenever start is
\* about to return an error because spawn failed or because the liveness
\* check saw the child exited, the supervisor holds no child handle.
C14_FailedStartIdle ==
    \A t \in Callers :
        ( /\ pc[t] = "ret"
          /\ result[t] \in { Err(ErrSpawn), Err(ErrExitDev), Err(ErrExitProd) } )
        => backend.child = None

\* C15 (the lock is released on every exit path): a restart_backend call that
\* has returned, with Ok or with any error of start, does not hold the mutex,
\* and every restart_backend call and close hook waiting for the mutex gets
\* past lock() unless the host process ends first.
C15_LockReleased ==
    /\ [](\A t \in RestartIds : pc[t] = "done" => lock # Some(t))
    /\ [](hook = "done" => lock # Some(HookId))
    /\ \A t \in RestartIds :
         (pc[t] = "lock") ~> (pc[t] = "stop" \/ host = "exited")
    /\ (hook = "lock") ~> (hook = "stop" \/ host = "exited")

\* A restart has returned an error from start and the other call holds the
\* mutex after it.
C15_Witness ==
    \E t, u \in RestartIds :
        /\ pc[t] = "done"
        /\ result[t] \in { WrapRestart(e) : e \in StartErrors }
        /\ pc[u] = "spawn"
        /\ lock = Some(u)

\* C16 (ordering inside start): port reclamation runs only while the
\* supervisor holds no handle and every earlier child is reaped; a start
\* whose http_addr holds a port has run reclamation before it resolves the
\* executable, so also when it then fails for a missing directory, a missing
\* binary or an unsupported platform, and before it spawns; and a child is
\* spawned only by a start that has passed these steps, with no handle held.
C16_StartOrder ==
    /\ [](\A t \in Callers :
            /\ pc[t] \in { "reclaim", "resolve", "spawn" } =>
                 /\ backend.child = None
                 /\ \A c \in Children : Reaped(c)
            /\ ( /\ ExpectedPort(ResolveConfig(arg[t]).http_addr) # << >>
                 /\ \/ pc[t] \in { "resolve", "spawn", "poll" }
                    \/ /\ pc[t] = "ret"
                       /\ result[t] \in { Err(ErrNoDir), Err(ErrNoBinary),
                                          Err(ErrUnsupported), Err(ErrSpawn),
                                          Err(ErrExitDev), Err(ErrExitProd), Ok } )
               => reclaim[t] # "not_run")
    /\ [][ Len(procs') > Len(procs) =>
             \E t \in Callers :
                /\ pc[t] = "spawn" /\ pc'[t] = "poll"
                /\ procs'[Len(procs')].by = t
                /\ backend.child = None
         ]_vars
    /\ [][ \A t \in Callers :
             reclaim'[t] \notin { reclaim[t], "not_run" } =>
                (pc[t] = "reclaim" /\ pc'[t] = "resolve" /\ backend.child = None)
         ]_vars

\* A restart that stopped the first child and reclaimed the port is about to
\* return the missing-directory error.
C16_Witness ==
    \E t \in RestartIds :
        /\ pc[t] = "ret"
        /\ result[t] = Err(ErrNoDir)
        /\ reclaim[t] = "killed"
        /\ Len(procs) = 1
        /\ procs[1].kill_called
        /\ backend.child = None

\* C17 (lock acquisition failure is surfaced without side effects): a
\* restart_backend call that finds the mutex poisoned returns the lock error
\* string and leaves the handle, the stored config, the processes and the
\* mutex as they were; no call gets inside a poisoned mutex, so once it is
\* poisoned nothing is stopped or spawned any more.
C17_PoisonSurfaced ==
    /\ [][ \A t \in RestartIds :
             (lock = Poisoned /\ pc[t] = "lock" /\ pc'[t] # "lock") =>
                /\ pc'[t] = "done"
                /\ result'[t] = Err(ErrLock)
                /\ backend' = backend
                /\ procs' = procs
                /\ lock' = lock
         ]_vars
    /\ [][ lock = Poisoned =>
             /\ lock' = Poisoned
             /\ backend' = backend
             /\ Len(procs') = Len(procs)
             /\ \A c \in Children :
                  procs'[c].kill_called = procs[c].kill_called
         ]_vars
    /\ [](\A t \in RestartIds :
            /\ result[t] = Err(ErrLock) => (pc[t] = "done" /\ lock = Poisoned)
            /\ lock = Poisoned => ~InLock(t))

\* A command has been answered with the lock error while the child that the
\* panicked command had spawned is still running and still held.
C17_Witness ==
    \E t \in RestartIds :
        /\ pc[t] = "done"
        /\ result[t] = Err(ErrLock)
        /\ lock = Poisoned
        /\ backend.child = Some(2)
        /\ Running(2)
        /\ backend.config = Some(CfgX)
        /\ hook = "done"

\* C18 (stored config matches the running child): whenever the supervisor
\* holds a handle, its record stores a config and that config is the one the
\* held child was launched with, the built-in defaults after start(None);
\* and after restart_backend's stop the record holds no handle and no config.
C18_StoredConfigMatches ==
    /\ backend.child # None =>
         /\ backend.config # None
         /\ procs[backend.child[1]].env = ChildEnv(backend.config[1])
    /\ \A t \in RestartIds :
         pc[t] = "start" => (backend.child = None /\ backend.config = None)

\* C19 (a failed restart does not preserve the previous child): when a
\* restart_backend call that got the mutex is about to return an error of
\* start, every child spawned before or during the call is reaped, the ones
\* of earlier calls after a kill, none is running, and the stored config is
\* the one this call was given, not the previous one.
C19_NoRollback ==
    \A t \in RestartIds :
        (pc[t] = "ret" /\ result[t] # Ok) =>
            /\ result[t] \in StartErrors
            /\ \A c \in Children :
                 /\ Reaped(c)
                 /\ procs[c].by # t => procs[c].kill_called
            /\ backend.child # None =>
                 (procs[backend.child[1]].by = t /\ ~Running(backend.child[1]))
            /\ backend.config = arg[t]

\* The child of the initial start was running under the defaults; the restart
\* that killed it is about to return a spawn error, with its own config stored.
C19_Witness ==
    \E t \in RestartIds :
        /\ pc[t] = "ret"
        /\ result[t] = Err(ErrSpawn)
        /\ Len(procs) = 1
        /\ procs[1].by = SetupId
        /\ procs[1].kill_called
        /\ backend.child = None
        /\ backend.config = Some(CfgX)

\* The initial start failed in a development build and setup has returned.
DevSetupFailed ==
    /\ build = "dev"
    /\ pc[SetupId] = "done"
    /\ result[SetupId] # Ok

\* C20 (an unregistered supervisor can never be restarted): after a failed
\* initial start in a development build the supervisor is not registered and
\* holds nothing; every restart_backend call ends at once with "Backend state
\* not found", never waiting for or holding the mutex; the close hook does
\* not reach its stop; and no step changes the supervisor or the processes,
\* so no child is spawned or stopped for the rest of the run.
C20_UnregisteredForever ==
    /\ [](DevSetupFailed =>
            /\ ~registered
            /\ lock = None
            /\ backend.child = None
            /\ hook \in { "idle", "done" }
            /\ \A t \in RestartIds :
                 /\ pc[t] \in { "idle", "done" }
                 /\ pc[t] = "done" => result[t] = Err(ErrNoState)
            /\ \A c \in Children : procs[c].by = SetupId /\ Reaped(c))
    /\ [][ DevSetupFailed =>
             (backend' = backend /\ procs' = procs /\ registered' = registered)
         ]_vars

\* After a failed liveness check at startup in a development build, both
\* commands have been refused and the window has been closed.
C20_Witness ==
    /\ DevSetupFailed
    /\ result[SetupId] = Err(ErrExitDev)
    /\ \A t \in RestartIds : pc[t] = "done" /\ result[t] = Err(ErrNoState)
    /\ hook = "done"
    /\ host = "exited"
    /\ Len(procs) = 1

====
